---- MODULE Spec2Model ----
(***************************************************************************)
(* Model of src/main.py: a Streamlit script that loads a pickled           *)
(* classifier once (st.cache_resource), collects nine clinical fields from *)
(* a form, encodes the categorical ones with ENCODINGS, calls the          *)
(* classifier and renders the outcome.                                     *)
(*                                                                         *)
(* One script run (a page load or a form submission) is one action.        *)
(* Messages are sequences of words, probabilities are integers in units of *)
(* 1/10000, displayed percentages are integers in units of 0.1%.           *)
(***************************************************************************)
EXTENDS Integers, Sequences, FiniteSets, TLC

VARIABLES disk,      \* what open('Deployment_model.pkl') finds on storage
          cache,     \* the st.cache_resource entry of load_model
          bot,       \* the module-level name bot
          loads,     \* number of executions of load_model's body
          loadErr,   \* the st.error text emitted by load_model's body
          found,     \* what open() found when load_model's body ran
          misuse,    \* the form is driven programmatically, bypassing the widgets
          last       \* everything the latest script run did

vars == <<disk, cache, bot, loads, loadErr, found, misuse, last>>

----------------------------------------------------------------------------
(* Bounds of the model *)

NumYears == 2
NumAges == 2
NumTumorSizes == 2

(* Widget constants of the form *)

YearMin == 2000
YearMax == 2030
YearDefault == 2023
AgeMin == 18
AgeMax == 100
AgeDefault == 40
TumorMin == 0
TumorMax == 20
TumorDefault == 1

----------------------------------------------------------------------------
(* Generic helpers for Python values *)

Range(s) == {s[i] : i \in 1..Len(s)}

\* dict.keys() in insertion order
Keys(d) == [i \in 1..Len(d) |-> d[i].k]

\* d.get(key, 0): a default instead of KeyError
LookupDefault(d, key) ==
    IF \E i \in 1..Len(d) : d[i].k = key
    THEN [raised |-> FALSE, val |-> d[CHOOSE i \in 1..Len(d) : d[i].k = key].v]
    ELSE [raised |-> FALSE, val |-> 0]

\* d[key]: the value, or KeyError
Lookup(d, key) ==
    IF \E i \in 1..Len(d) : d[i].k = key
    THEN [raised |-> FALSE, val |-> d[CHOOSE i \in 1..Len(d) : d[i].k = key].v]
    ELSE [raised |-> TRUE, val |-> 0]

\* seq[i] with Python's 0-based and negative indices: the value, or IndexError
Index(s, i) ==
    IF i >= 0 /\ i < Len(s) THEN [raised |-> FALSE, val |-> s[i + 1]]
    ELSE IF i < 0 /\ i >= 0 - Len(s) THEN [raised |-> FALSE, val |-> s[Len(s) + i + 1]]
    ELSE [raised |-> TRUE, val |-> 0]

\* f"{(p*100):.1f}" for p in units of 1/10000: tenths of a percent, ties to even
Fmt1(p) ==
    LET q == p \div 10
        r == p % 10
    IN  IF r > 5 \/ (r = 5 /\ q % 2 = 1) THEN q + 1 ELSE q

----------------------------------------------------------------------------
(* The model artifact and its loading *)

ArtifactName == "'Deployment_model.pkl'"

Artifacts == {"binary", "ternary"}
DiskStates == {"absent", "corrupt"} \cup Artifacts

\* the classes of a deserialized classifier
Classes(b) == IF b = "binary" THEN 0..1 ELSE IF b = "ternary" THEN 0..2 ELSE {}

UnpickleText == <<"invalid", "load", "key">>

\* load_model without the FileNotFoundError clause
load_model_generic(d) ==
    IF d \in Artifacts
    THEN [value |-> d, err |-> <<>>]
    ELSE [value |-> "None",
          err |-> <<"Error", "loading", "model:">> \o
                  (IF d = "absent" THEN <<"No", "such", "file", "or", "directory">>
                   ELSE UnpickleText)]

\* body of load_model
load_model(d) ==
    IF d \in Artifacts
    THEN [value |-> d, err |-> <<>>]
    ELSE IF d = "absent"
    THEN [value |-> "None",
          err |-> <<"Model", "file", "not", "found.", "Please", "ensure",
                    ArtifactName, "is", "in", "the", "correct", "directory.">>]
    ELSE [value |-> "None",
          err |-> <<"Error", "loading", "model:">> \o UnpickleText]

\* a cache that does not keep None
CacheHitNotNone(c) == c.set /\ c.value # "None"

\* st.cache_resource: is there a stored return value to reuse
CacheHit(c) == c.set

\* bot = load_model() under st.cache_resource
CachedLoad ==
    IF CacheHit(cache)
    THEN [cache |-> cache, bot |-> cache.value, loads |-> loads, loadErr |-> loadErr,
          found |-> found]
    ELSE LET r == load_model(disk)
         IN  [cache |-> [set |-> TRUE, value |-> r.value], bot |-> r.value,
              loads |-> loads + 1, loadErr |-> r.err, found |-> disk]

----------------------------------------------------------------------------
(* Encoding tables and the form *)

ENCODINGS ==
    [Menopause |-> << [k |-> "No", v |-> 0], [k |-> "Yes", v |-> 1] >>,
     Breast |-> << [k |-> "Left", v |-> 0], [k |-> "None", v |-> 1], [k |-> "Right", v |-> 2] >>,
     Metastasis |-> << [k |-> "No", v |-> 0], [k |-> "None", v |-> 1], [k |-> "Yes", v |-> 2] >>,
     BreastQuadrant |-> << [k |-> "Lower inner", v |-> 0], [k |-> "Lower outer", v |-> 1],
                           [k |-> "None", v |-> 2], [k |-> "Upper inner", v |-> 3],
                           [k |-> "Upper outer", v |-> 4] >>,
     History |-> << [k |-> "No", v |-> 0], [k |-> "Yes", v |-> 2], [k |-> "None", v |-> 1] >>]

InvNodeOptions == <<0, 1, 2>>

\* a label no table contains
UnknownLabel == "Unknown"

Years == {y \in YearMin..YearMax : y >= YearDefault /\ y < YearDefault + NumYears}
Ages == {a \in AgeMin..AgeMax : a >= AgeDefault /\ a < AgeDefault + NumAges}
TumorSizes == {t \in TumorMin..TumorMax : t >= TumorDefault /\ t < TumorDefault + NumTumorSizes}

\* the labels a categorical widget can deliver
Options(field, m) ==
    Range(Keys(ENCODINGS[field])) \cup (IF m THEN {UnknownLabel} ELSE {})

FormFields == {"year", "age", "menopause", "tumor_size", "inv_nodes",
               "breast", "metastasis", "breast_quadrant", "history"}

\* the widgets' initial values: slider defaults, first option of each selectbox
DefaultForm ==
    [year |-> YearDefault, age |-> AgeDefault,
     menopause |-> Keys(ENCODINGS.Menopause)[1],
     tumor_size |-> TumorDefault, inv_nodes |-> InvNodeOptions[1],
     breast |-> Keys(ENCODINGS.Breast)[1],
     metastasis |-> Keys(ENCODINGS.Metastasis)[1],
     breast_quadrant |-> Keys(ENCODINGS.BreastQuadrant)[1],
     history |-> Keys(ENCODINGS.History)[1]]

\* the values a widget can deliver
WidgetValues(x, m) ==
    CASE x = "year" -> Years
      [] x = "age" -> Ages
      [] x = "tumor_size" -> TumorSizes
      [] x = "inv_nodes" -> Range(InvNodeOptions)
      [] x = "menopause" -> Options("Menopause", m)
      [] x = "breast" -> Options("Breast", m)
      [] x = "metastasis" -> Options("Metastasis", m)
      [] x = "breast_quadrant" -> Options("BreastQuadrant", m)
      [] x = "history" -> Options("History", m)

\* the forms a run is given: the initial form, and the initial form with one
\* widget moved to any other of its values
FormsOf(m) ==
    {DefaultForm} \cup
    UNION {{[DefaultForm EXCEPT ![x] = v] : v \in WidgetValues(x, m)} : x \in FormFields}

UIForms == FormsOf(FALSE)
MisuseForms == FormsOf(TRUE)

\* the list with tumor_size and inv_nodes in each other's place
EncodeInputsSwapped(f) ==
    LET me == Lookup(ENCODINGS.Menopause, f.menopause)
        br == Lookup(ENCODINGS.Breast, f.breast)
        mt == Lookup(ENCODINGS.Metastasis, f.metastasis)
        bq == Lookup(ENCODINGS.BreastQuadrant, f.breast_quadrant)
        hi == Lookup(ENCODINGS.History, f.history)
    IN  IF me.raised \/ br.raised \/ mt.raised \/ bq.raised \/ hi.raised
        THEN [raised |-> TRUE, isNone |-> FALSE, inputs |-> <<>>]
        ELSE [raised |-> FALSE, isNone |-> FALSE,
              inputs |-> <<f.year, f.age, me.val, f.inv_nodes, f.tumor_size,
                           br.val, mt.val, bq.val, hi.val>>]

\* the list built at lines 72-82 from the five lookups and the four numbers
EncodeInputs(f) ==
    LET me == Lookup(ENCODINGS.Menopause, f.menopause)
        br == Lookup(ENCODINGS.Breast, f.breast)
        mt == Lookup(ENCODINGS.Metastasis, f.metastasis)
        bq == Lookup(ENCODINGS.BreastQuadrant, f.breast_quadrant)
        hi == Lookup(ENCODINGS.History, f.history)
    IN  IF me.raised \/ br.raised \/ mt.raised \/ bq.raised \/ hi.raised
        THEN [raised |-> TRUE, isNone |-> FALSE, inputs |-> <<>>]
        ELSE [raised |-> FALSE, isNone |-> FALSE,
              inputs |-> <<f.year, f.age, me.val, f.tumor_size, f.inv_nodes,
                           br.val, mt.val, bq.val, hi.val>>]

get_user_inputs(f, submitted) ==
    IF submitted THEN EncodeInputs(f)
    ELSE [raised |-> FALSE, isNone |-> TRUE, inputs |-> <<>>]

----------------------------------------------------------------------------
(* The classifier as the pipeline sees it *)

\* the texts of the exceptions the two classifier calls raise
PredictErrText == <<"feature", "names", "mismatch">>
ProbaErrText == <<"predict_proba", "is", "not", "available">>

\* class-probability rows a classifier of the given kind can return
Probas(b) ==
    IF b = "binary" THEN {<<8200, 1800>>, <<1000, 9000>>, <<5004, 4996>>}
    ELSE IF b = "ternary" THEN {<<1000, 2000, 7000>>, <<3333, 3333, 3334>>}
    ELSE {}

NoOracle ==
    [predictRaises |-> FALSE, predictErr |-> <<>>, code |-> 0,
     probaRaises |-> FALSE, probaErr |-> <<>>, proba |-> <<>>]

\* what bot.predict and bot.predict_proba do during one submission
Oracles(b) ==
    IF b \notin Artifacts THEN {NoOracle}
    ELSE {[NoOracle EXCEPT !.predictRaises = TRUE, !.predictErr = PredictErrText],
          [NoOracle EXCEPT !.probaRaises = TRUE, !.probaErr = ProbaErrText]}
         \cup {[NoOracle EXCEPT !.code = c, !.proba = p] :
                  c \in Classes(b), p \in Probas(b)}

feature_names == <<"Year", "Age", "Menopause", "Tumor Size (cm)", "Inv-Nodes",
                   "Breast", "Metastasis", "Breast Quadrant", "History">>

StrValue(words) == [tag |-> "str", text |-> words, code |-> 0]
IntValue(c) == [tag |-> "int", text |-> <<>>, code |-> c]
NoValue == [tag |-> "none", text |-> <<>>, code |-> 0]

NoAttrText == <<"'NoneType'", "object", "has", "no", "attribute", "'predict'">>
ColumnsText == <<"9", "columns", "passed,", "passed", "data", "had", "other", "columns">>

\* the except clause without str(e)
PredictionErrorNoDetail(e) == StrValue(<<"Prediction", "error">>)

PredictionError(e) == StrValue(<<"Prediction", "error:">> \o e)

\* no guard
ModelMissingNever(b) == FALSE

\* the guard at line 88
ModelMissing(b) == b = "None"

\* the try block with predict_proba called before predict
TryPredictProbaFirst(b, input_data, orc) ==
    IF Len(input_data) # Len(feature_names)
    THEN [prediction |-> PredictionError(ColumnsText), probability |-> <<>>,
          calls |-> <<>>, df |-> <<>>]
    ELSE LET input_df == [i \in 1..Len(feature_names) |->
                             [col |-> feature_names[i], val |-> input_data[i]]]
         IN  IF b \notin Artifacts
             THEN [prediction |-> PredictionError(NoAttrText), probability |-> <<>>,
                   calls |-> <<>>, df |-> <<>>]
             ELSE IF orc.probaRaises
             THEN [prediction |-> PredictionError(orc.probaErr), probability |-> <<>>,
                   calls |-> <<"predict_proba">>, df |-> input_df]
             ELSE IF orc.predictRaises
             THEN [prediction |-> PredictionError(orc.predictErr), probability |-> <<>>,
                   calls |-> <<"predict_proba", "predict">>, df |-> input_df]
             ELSE [prediction |-> IntValue(orc.code), probability |-> orc.proba,
                   calls |-> <<"predict_proba", "predict">>, df |-> input_df]

\* the try block at lines 91-105, entered with bot = b
TryPredict(b, input_data, orc) ==
    IF Len(input_data) # Len(feature_names)
    THEN [prediction |-> PredictionError(ColumnsText), probability |-> <<>>,
          calls |-> <<>>, df |-> <<>>]
    ELSE LET input_df == [i \in 1..Len(feature_names) |->
                             [col |-> feature_names[i], val |-> input_data[i]]]
         IN  IF b \notin Artifacts
             THEN [prediction |-> PredictionError(NoAttrText), probability |-> <<>>,
                   calls |-> <<>>, df |-> <<>>]
             ELSE IF orc.predictRaises
             THEN [prediction |-> PredictionError(orc.predictErr), probability |-> <<>>,
                   calls |-> <<"predict">>, df |-> input_df]
             ELSE IF orc.probaRaises
             THEN [prediction |-> PredictionError(orc.probaErr), probability |-> <<>>,
                   calls |-> <<"predict", "predict_proba">>, df |-> input_df]
             ELSE [prediction |-> IntValue(orc.code), probability |-> orc.proba,
                   calls |-> <<"predict", "predict_proba">>, df |-> input_df]

make_prediction(b, input_data, orc) ==
    IF ModelMissing(b)
    THEN [prediction |-> StrValue(<<"Error:", "Model", "not", "available">>),
          probability |-> <<>>, calls |-> <<>>, df |-> <<>>]
    ELSE TryPredict(b, input_data, orc)

----------------------------------------------------------------------------
(* Presentation *)

\* one element written to the page
Element(el, text, label, conf) ==
    [el |-> el, text |-> text, label |-> label, conf |-> conf,
     benign |-> -1, malignant |-> -1]

Subheader == Element("subheader", <<"Assessment", "Results">>, "", -1)
ScreeningText == <<"low", "risk;", "regular", "screenings", "still", "recommended">>
ConsultText == <<"consult", "a", "healthcare", "professional", "immediately">>

\* line 115
ResultLabel(code) == IF code = 0 THEN "Benign" ELSE "Malignant"

\* line 116: the index used for the confidence
ConfidenceIndex(code) == code

\* lines 134-136
Expander(probability) ==
    LET b == Index(probability, 0)
        m == Index(probability, 1)
    IN  IF b.raised \/ m.raised THEN [raised |-> TRUE, el |-> Subheader]
        ELSE [raised |-> FALSE,
              el |-> [el |-> "expander", text |-> <<"See", "detailed", "probabilities">>,
                      label |-> "", conf |-> -1,
                      benign |-> Fmt1(b.val), malignant |-> Fmt1(m.val)]]

\* display_results showing a fixed text in the error case
display_results_fixed(prediction, probability) ==
    IF prediction.tag = "str"
    THEN [shown |-> <<Subheader,
                      Element("error", <<"Something", "went", "wrong">>, "", -1)>>,
          fault |-> "none"]
    ELSE [shown |-> <<Subheader>>, fault |-> "none"]

display_results(prediction, probability) ==
    IF prediction.tag = "str"
    THEN [shown |-> <<Subheader, Element("error", prediction.text, "", -1)>>,
          fault |-> "none"]
    ELSE LET result == ResultLabel(prediction.code)
             c == Index(probability, ConfidenceIndex(prediction.code))
             x == Expander(probability)
             head == IF prediction.code = 0
                     THEN <<Subheader,
                            Element("success", <<"**Result:**">>, result, Fmt1(c.val)),
                            Element("balloons", <<>>, "", -1),
                            Element("write", ScreeningText, "", -1)>>
                     ELSE <<Subheader,
                            Element("error", <<"**Result:**">>, result, Fmt1(c.val)),
                            Element("write", ConsultText, "", -1)>>
         IN  IF c.raised THEN [shown |-> <<Subheader>>, fault |-> "IndexError"]
             ELSE IF x.raised THEN [shown |-> head, fault |-> "IndexError"]
             ELSE [shown |-> Append(head, x.el), fault |-> "none"]

----------------------------------------------------------------------------
(* One run of the script *)

NoRun ==
    [submitted |-> FALSE, form |-> DefaultForm, hasInputs |-> FALSE, inputs |-> <<>>,
     df |-> <<>>, calls |-> <<>>, prediction |-> NoValue, probability |-> <<>>,
     shown |-> <<>>, fault |-> "none", oracle |-> NoOracle, hit |-> FALSE]

\* main() with the form in state f, the submit button in state submitted
main(f, submitted, b, orc) ==
    LET gi == get_user_inputs(f, submitted)
        base == [NoRun EXCEPT !.submitted = submitted, !.form = f]
    IN  IF gi.raised THEN [base EXCEPT !.fault = "KeyError"]
        ELSE IF gi.isNone \/ Len(gi.inputs) = 0 THEN base
        ELSE LET mp == make_prediction(b, gi.inputs, orc)
                 dr == display_results(mp.prediction, mp.probability)
             IN  [base EXCEPT !.hasInputs = TRUE, !.inputs = gi.inputs,
                              !.df = mp.df, !.calls = mp.calls,
                              !.prediction = mp.prediction,
                              !.probability = mp.probability,
                              !.shown = dr.shown, !.fault = dr.fault,
                              !.oracle = orc]

Forms == IF misuse THEN MisuseForms ELSE UIForms

ScriptRun(f, submitted, orc) ==
    LET ld == CachedLoad
    IN  /\ cache' = ld.cache
        /\ bot' = ld.bot
        /\ loads' = ld.loads
        /\ loadErr' = ld.loadErr
        /\ found' = ld.found
        /\ last' = [main(f, submitted, ld.bot, orc) EXCEPT !.hit = CacheHit(cache)]
        /\ UNCHANGED <<disk, misuse>>

\* a page load or a rerun that is not a form submission
PageLoad == ScriptRun(DefaultForm, FALSE, NoOracle)

\* the user presses "Assess Risk"
Submit ==
    \E f \in Forms :
        \E orc \in Oracles(CachedLoad.bot) : ScriptRun(f, TRUE, orc)

\* the artifact file is put in place, replaced, damaged or removed
FileChange ==
    /\ \E d \in DiskStates \ {disk} : disk' = d
    /\ UNCHANGED <<cache, bot, loads, loadErr, found, misuse, last>>

InitCommon ==
    /\ disk \in DiskStates
    /\ cache = [set |-> FALSE, value |-> "None"]
    /\ bot = "unset"
    /\ loads = 0
    /\ loadErr = <<>>
    /\ found = "unset"
    /\ last = NoRun

Init == InitCommon /\ misuse = FALSE

InitMisuse == InitCommon /\ misuse = TRUE

Next == PageLoad \/ Submit \/ FileChange

Spec == Init /\ [][Next]_vars

SpecMisuse == InitMisuse /\ [][Next]_vars

----------------------------------------------------------------------------
(* Vocabulary of the properties *)

UnavailableText == <<"Error:", "Model", "not", "available">>
InferencePrefix == <<"Prediction", "error:">>

ModelUnavailable(r) == r.prediction.tag = "str" /\ r.prediction.text = UnavailableText

InferenceFailure(r) ==
    /\ r.prediction.tag = "str"
    /\ Len(r.prediction.text) >= 2
    /\ SubSeq(r.prediction.text, 1, 2) = InferencePrefix

Success(r) == r.submitted /\ r.prediction.tag = "int"

ClassifierRaised(r) == r.oracle.predictRaises \/ r.oracle.probaRaises

RiskLabels == {"Benign", "Malignant"}
LabelsShown(r) == {r.shown[i].label : i \in 1..Len(r.shown)} \cap RiskLabels
Shows(r, el) == \E i \in 1..Len(r.shown) : r.shown[i].el = el
NoRiskContent(r) ==
    \A i \in 1..Len(r.shown) :
        /\ r.shown[i].label = ""
        /\ r.shown[i].conf = -1
        /\ r.shown[i].el \in {"subheader", "error"}
NamesArtifact(text) == \E i \in 1..Len(text) : text[i] = ArtifactName

----------------------------------------------------------------------------
(* C1: once the load returned None, every submission returns the
   ModelUnavailable failure and calls neither predict nor predict_proba. *)
C1_UnavailableWithoutInference ==
    (bot = "None" /\ last.submitted) =>
        /\ ModelUnavailable(last)
        /\ last.probability = <<>>
        /\ last.calls = <<>>
        /\ last.df = <<>>

C1_Witness ==
    /\ bot = "None"
    /\ last.submitted
    /\ last.hit
    /\ last.hasInputs
    /\ disk \in Artifacts

(* C2: a submission during which the classifier raises ends in an
   InferenceFailure value whose text is "Prediction error:" followed by the
   error's text, with no unhandled fault; and the submission that follows it,
   if the classifier does not raise, gives a normal result. *)
C2_InferenceFailureRecovered ==
    [][ /\ (last'.submitted /\ last'.hasInputs /\ ClassifierRaised(last')) =>
              /\ InferenceFailure(last')
              /\ last'.prediction.text =
                    InferencePrefix \o (IF last'.oracle.predictRaises
                                        THEN last'.oracle.predictErr
                                        ELSE last'.oracle.probaErr)
              /\ last'.fault = "none"
        /\ (/\ last.submitted /\ ClassifierRaised(last)
            /\ last'.submitted /\ ~ClassifierRaised(last')) =>
              /\ Success(last')
              /\ last'.fault = "none"
              /\ LabelsShown(last') # {}
      ]_vars

C2_Witness ==
    /\ last.submitted
    /\ last.hasInputs
    /\ last.oracle.predictRaises
    /\ InferenceFailure(last)
    /\ last.fault = "none"

(* C3: the body of load_model runs at most once; once a value is cached,
   success or failure, no later run changes the cache or bot, whatever
   happens to the file. *)
C3_LoadOnce ==
    [][ /\ loads' <= 1
        /\ cache.set => (cache' = cache /\ loads' = loads /\ bot' = cache.value)
      ]_vars

C3_Witness ==
    /\ cache.set
    /\ cache.value = "None"
    /\ bot = "None"
    /\ loads = 1
    /\ last.submitted
    /\ last.hit
    /\ disk \in Artifacts

(* C4: on every successful assessment the label is "Benign" iff the class
   code is 0 and "Malignant" iff it is 1; any other class code shows no
   label. *)
C4_LabelIffCode ==
    Success(last) =>
        /\ ("Benign" \in LabelsShown(last)) <=> (last.prediction.code = 0)
        /\ ("Malignant" \in LabelsShown(last)) <=> (last.prediction.code = 1)
        /\ (last.prediction.code \notin {0, 1}) => (LabelsShown(last) = {})

(* C5: the vector built for a submission, and the row handed to the
   classifier, has the nine values Year, Age, Menopause, TumorSize, InvNodes,
   Breast, Metastasis, BreastQuadrant, History in that order: the numbers as
   submitted, each label replaced by its ENCODINGS code, which lies in the
   field's code set; the initial form gives [2023, 40, 0, 1, 0, 0, 0, 0, 0]. *)
CodeOf(table, label) == CHOOSE c \in 0..4 : [k |-> label, v |-> c] \in Range(table)

ExpectedVector(f) ==
    <<f.year, f.age, CodeOf(ENCODINGS.Menopause, f.menopause), f.tumor_size,
      f.inv_nodes, CodeOf(ENCODINGS.Breast, f.breast),
      CodeOf(ENCODINGS.Metastasis, f.metastasis),
      CodeOf(ENCODINGS.BreastQuadrant, f.breast_quadrant),
      CodeOf(ENCODINGS.History, f.history)>>

C5_FeatureVector ==
    /\ (last.submitted /\ last.hasInputs) =>
          /\ Len(last.inputs) = 9
          /\ last.inputs = ExpectedVector(last.form)
          /\ last.inputs[3] \in 0..1
          /\ last.inputs[6] \in 0..2
          /\ last.inputs[7] \in 0..2
          /\ last.inputs[8] \in 0..4
          /\ last.inputs[9] \in 0..2
          /\ (last.form = [year |-> 2023, age |-> 40, menopause |-> "No",
                           tumor_size |-> 1, inv_nodes |-> 0, breast |-> "Left",
                           metastasis |-> "No", breast_quadrant |-> "Lower inner",
                           history |-> "No"]) =>
                last.inputs = <<2023, 40, 0, 1, 0, 0, 0, 0, 0>>
    /\ (last.calls # <<>>) =>
          /\ last.submitted /\ last.hasInputs
          /\ Len(last.df) = 9
          /\ \A i \in 1..9 : last.df[i].val = last.inputs[i]
          /\ [i \in 1..9 |-> last.df[i].col] =
                <<"Year", "Age", "Menopause", "Tumor Size (cm)", "Inv-Nodes",
                  "Breast", "Metastasis", "Breast Quadrant", "History">>

C5_Witness ==
    /\ last.submitted
    /\ last.calls = <<"predict", "predict_proba">>
    /\ last.form.history = "Yes"
    /\ last.inputs = <<2023, 40, 0, 1, 0, 0, 0, 0, 2>>

(* C6: on every successful assessment the detail view with both class
   probabilities is shown, and the confidence next to the label equals the
   Benign probability of the detail view when the label is Benign and the
   Malignant probability when the label is Malignant. *)
C6_ConfidenceMatchesDetail ==
    Success(last) =>
        /\ Shows(last, "expander")
        /\ \A i, j \in 1..Len(last.shown) :
              (last.shown[i].label \in RiskLabels /\ last.shown[j].el = "expander") =>
                  /\ (last.shown[i].label = "Benign") =>
                        (last.shown[i].conf = last.shown[j].benign)
                  /\ (last.shown[i].label = "Malignant") =>
                        (last.shown[i].conf = last.shown[j].malignant)

(* C7: a submission that ends in a failure value shows an error element
   carrying the failure's text and nothing else but the heading: no label,
   no confidence, no balloons, no reassurance or consultation text, no
   probability detail. *)
C7_FailureShowsOnlyError ==
    (last.submitted /\ last.hasInputs /\ last.prediction.tag = "str") =>
        /\ ModelUnavailable(last) \/ InferenceFailure(last)
        /\ \E i \in 1..Len(last.shown) :
              last.shown[i].el = "error" /\ last.shown[i].text = last.prediction.text
        /\ NoRiskContent(last)
        /\ ~Shows(last, "balloons")
        /\ ~Shows(last, "expander")
        /\ last.fault = "none"

C7_Witness ==
    /\ last.submitted
    /\ InferenceFailure(last)
    /\ last.oracle.probaRaises
    /\ Len(last.shown) = 2

(* C8 as stated: with the file absent when the load ran, every submission
   returns a ModelUnavailable failure whose message names the artifact. *)
C8_MessageNamesArtifact ==
    (found = "absent" /\ last.submitted) =>
        /\ last.prediction.tag = "str"
        /\ NamesArtifact(last.prediction.text)

(* C8 amended: with the file absent when the load ran, every submission
   returns the failure "Error: Model not available", which does not name the
   artifact; the artifact is named by the error load_model emitted. *)
C8_UnavailableGenericMessage ==
    (found = "absent" /\ last.submitted) =>
        /\ ModelUnavailable(last)
        /\ ~NamesArtifact(last.prediction.text)
        /\ NamesArtifact(loadErr)
        /\ last.calls = <<>>

C8_Witness ==
    /\ found = "absent"
    /\ last.submitted
    /\ last.hit
    /\ Shows(last, "error")

(* C9: a submission in which a categorical widget carries a label missing
   from its table ends in the KeyError of the lookup: no vector is built, no
   code is substituted, nothing is handed to the classifier and no result is
   shown. *)
HasUnknownLabel(f) ==
    \/ f.menopause \notin Range(Keys(ENCODINGS.Menopause))
    \/ f.breast \notin Range(Keys(ENCODINGS.Breast))
    \/ f.metastasis \notin Range(Keys(ENCODINGS.Metastasis))
    \/ f.breast_quadrant \notin Range(Keys(ENCODINGS.BreastQuadrant))
    \/ f.history \notin Range(Keys(ENCODINGS.History))

C9_UnknownLabelRaises ==
    (last.submitted /\ HasUnknownLabel(last.form)) =>
        /\ last.fault = "KeyError"
        /\ ~last.hasInputs
        /\ last.inputs = <<>>
        /\ last.df = <<>>
        /\ last.calls = <<>>
        /\ last.prediction.tag = "none"
        /\ last.shown = <<>>

C9_Witness ==
    /\ misuse
    /\ last.submitted
    /\ last.form.breast_quadrant = UnknownLabel
    /\ last.fault = "KeyError"
    /\ bot \in Artifacts

(* C10: in one run the classifier is called only on a submission, predict
   first and predict_proba second, each at most once; predict_proba is not
   called when predict raised; a label is shown only when both returned; and
   when predict returns and predict_proba raises the outcome is an
   InferenceFailure with no label. *)
C10_CallOrder ==
    /\ last.calls \in {<<>>, <<"predict">>, <<"predict", "predict_proba">>}
    /\ (last.calls # <<>>) => last.submitted
    /\ (last.calls # <<>> /\ last.oracle.predictRaises) => last.calls = <<"predict">>
    /\ (LabelsShown(last) # {}) =>
          /\ last.calls = <<"predict", "predict_proba">>
          /\ ~ClassifierRaised(last)
    /\ (last.submitted /\ ~last.oracle.predictRaises /\ last.oracle.probaRaises) =>
          /\ last.calls = <<"predict", "predict_proba">>
          /\ InferenceFailure(last)
          /\ LabelsShown(last) = {}

C10_Witness ==
    /\ last.submitted
    /\ last.oracle.probaRaises
    /\ last.calls = <<"predict", "predict_proba">>
    /\ InferenceFailure(last)

====
